---- MODULE Spec2Model ----
(***************************************************************************)
(* Model of the skill-extraction and matching engine of ProFel:            *)
(*   web-version/frontend/src/services/matchService.js                     *)
(*     calculateMatch, calculateCombinedMatch, performLocalMatch,          *)
(*     calculateStringSimilarity, extractSkills, extractTechKeywords       *)
(*   web-version/frontend/src/pages/Home.js                                *)
(*     calculateLocalMatch, extractProfileSkills, extractJobSkills         *)
(*                                                                         *)
(* JavaScript strings are TLA+ strings; JavaScript numbers are exact       *)
(* rationals [n, d] (d > 0) or the value NaN; arrays are sequences.        *)
(***************************************************************************)
EXTENDS Integers, Sequences, FiniteSets, TLC

VARIABLES
    profiles,   \* the profile records handed to the engine (an array)
    job,        \* the job record handed to the engine (a mutable object)
    job0,       \* the job record as it was when the caller built it
    str1,       \* first argument of a direct similarity call
    str2,       \* second argument of a direct similarity call
    result,     \* what the last call returned
    op          \* which function was called last ("none" before any call)

vars == <<profiles, job, job0, str1, str2, result, op>>

(***************************************************************************)
(* Numbers                                                                 *)
(***************************************************************************)
Rat(n, d) == [nan |-> FALSE, n |-> n, d |-> d]
NaN == [nan |-> TRUE, n |-> 0, d |-> 1]

\* a >= b on numbers; every comparison with NaN is false, as in JavaScript
GE(a, b) == ~a.nan /\ ~b.nan /\ a.n * b.d >= b.n * a.d
LT(a, b) == ~a.nan /\ ~b.nan /\ a.n * b.d < b.n * a.d
EQ(a, b) == ~a.nan /\ ~b.nan /\ a.n * b.d = b.n * a.d

\* x / y for array lengths; the one caller guards y > 0
Div(x, y) == IF y = 0 THEN NaN ELSE Rat(x, y)

Max2(x, y) == IF x >= y THEN x ELSE y
Min2(x, y) == IF x <= y THEN x ELSE y

(***************************************************************************)
(* Strings                                                                 *)
(***************************************************************************)
Char(s, i) == SubSeq(s, i, i)

UpperChars == "ABCDEFGHIJKLMNOPQRSTUVWXYZ"
LowerChars == "abcdefghijklmnopqrstuvwxyz"

UpperSet == {Char(UpperChars, i) : i \in 1..Len(UpperChars)}
LowerSet == {Char(LowerChars, i) : i \in 1..Len(LowerChars)}

lowerOf ==
    [c \in UpperSet |->
        Char(LowerChars, CHOOSE i \in 1..Len(UpperChars) : Char(UpperChars, i) = c)]

IsUpper(c) == c \in UpperSet
IsLower(c) == c \in LowerSet

\* String.prototype.toLowerCase on one character
toLowerChar(c) == IF c \in UpperSet THEN lowerOf[c] ELSE c

RECURSIVE toLowerCase(_)
toLowerCase(s) ==
    IF s = "" THEN "" ELSE toLowerChar(Head(s)) \o toLowerCase(Tail(s))

\* String.prototype.includes
includes(s, t) ==
    \E i \in 1..(Len(s) - Len(t) + 1) : SubSeq(s, i, i + Len(t) - 1) = t

IsSpace(c) == c = " "

\* String.prototype.split with a pattern of one or more delimiter characters:
\* s is what is left to scan, cur the piece being built, inRun tells that the
\* previous character was a delimiter, delims holds the delimiter characters.
RECURSIVE splitRuns(_, _, _, _)
splitRuns(s, cur, inRun, delims) ==
    IF s = "" THEN <<cur>>
    ELSE IF includes(delims, Head(s))
         THEN IF inRun THEN splitRuns(Tail(s), "", TRUE, delims)
              ELSE <<cur>> \o splitRuns(Tail(s), "", TRUE, delims)
         ELSE splitRuns(Tail(s), cur \o Head(s), FALSE, delims)

\* str.split(/\s+/)
splitWhitespace(s) == splitRuns(s, "", FALSE, " ")

RECURSIVE trimStart(_)
trimStart(s) == IF s # "" /\ IsSpace(Head(s)) THEN trimStart(Tail(s)) ELSE s

RECURSIVE trimEnd(_)
trimEnd(s) ==
    IF s # "" /\ IsSpace(Char(s, Len(s)))
    THEN trimEnd(SubSeq(s, 1, Len(s) - 1)) ELSE s

\* String.prototype.trim
trim(s) == trimEnd(trimStart(s))

(***************************************************************************)
(* calculateStringSimilarity and its helpers                               *)
(***************************************************************************)
RECURSIVE commonPrefixFrom(_, _, _)
commonPrefixFrom(a, b, i) ==
    IF i < Min2(Len(a), Len(b)) /\ Char(a, i + 1) = Char(b, i + 1)
    THEN commonPrefixFrom(a, b, i + 1) ELSE i

commonPrefixLength(a, b) == commonPrefixFrom(a, b, 0)

RECURSIVE commonSuffixFrom(_, _, _)
commonSuffixFrom(a, b, i) ==
    IF i < Min2(Len(a), Len(b)) /\ Char(a, Len(a) - i) = Char(b, Len(b) - i)
    THEN commonSuffixFrom(a, b, i + 1) ELSE i

commonSuffixLength(a, b) == commonSuffixFrom(a, b, 0)

\* the forEach of lines 324-328: words of a that equal, contain or are
\* contained in some word of b
commonWordCount(words1, words2) ==
    Cardinality({i \in 1..Len(words1) :
        \E j \in 1..Len(words2) :
            \/ words1[i] = words2[j]
            \/ includes(words1[i], words2[j])
            \/ includes(words2[j], words1[i])})

\* lines 335-344 asking for a common prefix and a common suffix
prefixSuffixRule_bothEnds(a, b) ==
    LET prefixLength == commonPrefixLength(a, b)
        suffixLength == commonSuffixLength(a, b)
    IN  IF prefixLength >= 3 /\ suffixLength >= 3
        THEN Rat(prefixLength + suffixLength, Len(a) + Len(b))
        ELSE Rat(1, 10)

prefixSuffixRule(a, b) ==
    LET prefixLength == commonPrefixLength(a, b)
        suffixLength == commonSuffixLength(a, b)
    IN  IF prefixLength >= 3 \/ suffixLength >= 3
        THEN Rat(prefixLength + suffixLength, Len(a) + Len(b))
        ELSE Rat(1, 10)

\* lines 320-332 with the shorter word list as the denominator
wordRule_minWords(a, b) ==
    LET words1 == splitWhitespace(a)
        words2 == splitWhitespace(b)
        commonWords == commonWordCount(words1, words2)
    IN  IF commonWords > 0
        THEN Rat(commonWords, Min2(Len(words1), Len(words2)))
        ELSE prefixSuffixRule(a, b)

wordRule(a, b) ==
    LET words1 == splitWhitespace(a)
        words2 == splitWhitespace(b)
        commonWords == commonWordCount(words1, words2)
    IN  IF commonWords > 0
        THEN Rat(commonWords, Max2(Len(words1), Len(words2)))
        ELSE prefixSuffixRule(a, b)

\* lines 299-345 with 0.1 for 0 at line 316
calculateStringSimilarity_shortNeverZero(a, b) ==
    IF a = b THEN Rat(1, 1)
    ELSE IF includes(a, b) THEN Rat(9, 10)
    ELSE IF includes(b, a) THEN Rat(9, 10)
    ELSE IF Len(a) = 0 \/ Len(b) = 0 THEN Rat(0, 1)
    ELSE IF Len(a) < 3 \/ Len(b) < 3
         THEN (IF Char(a, 1) = Char(b, 1) THEN Rat(7, 10) ELSE Rat(1, 10))
    ELSE wordRule(a, b)

\* lines 299-345 without line 305, the containment test the other way round
calculateStringSimilarity_oneWay(a, b) ==
    IF a = b THEN Rat(1, 1)
    ELSE IF includes(a, b) THEN Rat(9, 10)
    ELSE IF Len(a) = 0 \/ Len(b) = 0 THEN Rat(0, 1)
    ELSE IF Len(a) < 3 \/ Len(b) < 3
         THEN (IF Char(a, 1) = Char(b, 1) THEN Rat(7, 10) ELSE Rat(0, 1))
    ELSE wordRule(a, b)

calculateStringSimilarity_noDirect(a, b) ==
    IF includes(a, b) THEN Rat(9, 10)
    ELSE IF includes(b, a) THEN Rat(9, 10)
    ELSE IF Len(a) = 0 \/ Len(b) = 0 THEN Rat(0, 1)
    ELSE IF Len(a) < 3 \/ Len(b) < 3
         THEN (IF Char(a, 1) = Char(b, 1) THEN Rat(7, 10) ELSE Rat(0, 1))
    ELSE wordRule(a, b)

calculateStringSimilarity(a, b) ==
    IF a = b THEN Rat(1, 1)
    ELSE IF includes(a, b) THEN Rat(9, 10)
    ELSE IF includes(b, a) THEN Rat(9, 10)
    ELSE IF Len(a) = 0 \/ Len(b) = 0 THEN Rat(0, 1)
    ELSE IF Len(a) < 3 \/ Len(b) < 3
         THEN (IF Char(a, 1) = Char(b, 1) THEN Rat(7, 10) ELSE Rat(0, 1))
    ELSE wordRule(a, b)

(***************************************************************************)
(* Arrays                                                                  *)
(***************************************************************************)
RECURSIVE Flatten(_)
Flatten(ss) == IF ss = <<>> THEN <<>> ELSE Head(ss) \o Flatten(Tail(ss))

\* Array.prototype.filter, the test given on the index
SelectIdx(seq, keep(_)) ==
    LET kept == {i \in 1..Len(seq) : keep(i)}
        nth(k) == CHOOSE i \in kept : Cardinality({j \in kept : j < i}) = k - 1
    IN  [k \in 1..Cardinality(kept) |-> seq[nth(k)]]

Range(seq) == {seq[i] : i \in 1..Len(seq)}

\* [...new Set(seq)]: first occurrences, in order; equality is exact
Dedup(seq) == SelectIdx(seq, LAMBDA i : \A j \in 1..(i - 1) : seq[j] # seq[i])

(***************************************************************************)
(* extractTechKeywords                                                     *)
(***************************************************************************)
techKeywords ==
    <<"JavaScript", "JS", "TypeScript", "TS", "React", "Angular", "Vue", "Node", "Express",
      "MongoDB", "SQL", "PostgreSQL", "MySQL", "Firebase", "AWS", "Azure", "GCP",
      "Docker", "Kubernetes", "CI/CD", "Git", "GitHub", "GitLab", "Python", "Django", "Flask",
      "Java", "Spring", "C#", ".NET", "C++", "Ruby", "Rails", "PHP", "Laravel", "Symfony",
      "HTML", "CSS", "SASS", "SCSS", "Bootstrap", "Tailwind", "Redux", "GraphQL", "REST API",
      "Agile", "Scrum", "TDD", "Jest", "Mocha", "Cypress", "WebPack", "Babel", "ESLint",
      "Responsive Design", "Mobile Development", "Android", "iOS", "Swift", "Kotlin",
      "Machine Learning", "AI", "Data Science", "Big Data", "Hadoop", "Spark", "TensorFlow",
      "Blockchain", "Ethereum", "Solidity", "DevOps", "Linux", "Unix", "Bash", "Shell",
      "PowerShell", "Frontend", "Backend", "Fullstack", "Web Development", "Software Engineering",
      "Algorithm", "Data Structure", "Database", "Networking", "Security", "Cloud Computing",
      "Microservices", "API Design", "UI/UX", "Testing", "QA", "Debugging", "Performance Optimization",
      "Go", "Golang", "Rust", "Scala", "Clojure", "Haskell", "Erlang", "Elixir", "F#", "OCaml",
      "R", "Julia", "MATLAB", "Perl", "Assembly", "COBOL", "Fortran", "Lisp", "Scheme",
      "Next.js", "Gatsby", "Svelte", "jQuery", "Ember", "Backbone", "Knockout", "D3.js",
      "Three.js", "WebGL", "Canvas", "SVG", "Web Components", "PWA", "Service Workers",
      "WebSockets", "WebRTC", "WebAssembly", "WASM",
      "Senior", "Junior", "Developer", "Engineer", "Architect", "Lead", "Manager", "Director",
      "Programmer", "SDE", "SWE">>

techKeywordsLower == [i \in 1..Len(techKeywords) |-> toLowerCase(techKeywords[i])]

\* the delimiter class of line 562: [\s\-_.,;:!?()[\]{}|\\/"']
wordDelimiters == " -_.,;:!?()[]{}|\\/\"'"

AllLower(s) == \A i \in 1..Len(s) : IsLower(Char(s, i))

\* /^[a-z]+[A-Z][a-z]*/
looksCamelCase(w) ==
    \E k \in 1..(Len(w) - 1) : AllLower(SubSeq(w, 1, k)) /\ IsUpper(Char(w, k + 1))

\* /^[A-Z][a-z]+[A-Z]/
looksPascalCase(w) ==
    /\ Len(w) >= 3
    /\ IsUpper(Char(w, 1))
    /\ \E k \in 2..(Len(w) - 1) : AllLower(SubSeq(w, 2, k)) /\ IsUpper(Char(w, k + 1))

\* /\.[a-z]{1,4}$/
looksFileExtension(w) ==
    \E k \in 1..4 :
        /\ Len(w) >= k + 1
        /\ Char(w, Len(w) - k) = "."
        /\ AllLower(SubSeq(w, Len(w) - k + 1, Len(w)))

\* /^[a-z]+\-[a-z]+$/
looksHyphenated(w) ==
    \E k \in 2..(Len(w) - 1) :
        /\ Char(w, k) = "-"
        /\ AllLower(SubSeq(w, 1, k - 1))
        /\ AllLower(SubSeq(w, k + 1, Len(w)))

looksLikeTechWord(w) ==
    \/ (Len(w) > 1 /\ looksCamelCase(w))
    \/ (Len(w) > 1 /\ looksPascalCase(w))
    \/ looksFileExtension(w)
    \/ looksHyphenated(w)

scanTechKeywords(text) ==
    IF text = "" THEN <<>>
    ELSE LET textLower == toLowerCase(text)
             found == SelectIdx(techKeywords,
                          LAMBDA i : includes(textLower, techKeywordsLower[i]))
             words == splitRuns(textLower, "", FALSE, wordDelimiters)
             potentialTechWords ==
                 SelectIdx(words, LAMBDA i : looksLikeTechWord(words[i]))
         IN  Dedup(found \o potentialTechWords)

\* the free texts of the records the specifications draw, scanned once
InputTexts ==
    {"React developer", "Python expert", "Acme",
     "https://github.com/alice", "bob smith"}

keywordsOfInputText == [t \in InputTexts |-> scanTechKeywords(t)]

extractTechKeywords(text) ==
    IF text \in InputTexts THEN keywordsOfInputText[text] ELSE scanTechKeywords(text)

(***************************************************************************)
(* Records: a skill-list entry, a repository, an experience item, and the  *)
(* loosely-typed profile / job object.  A missing string field is "", a    *)
(* missing array is <<>>, a missing number is NoNumber: the code tells     *)
(* them apart from present values by truthiness only.                      *)
(***************************************************************************)
NoNumber == [nan |-> TRUE, n |-> 0, d |-> 1]

\* k: "str" a bare string; "obj" an object with a string name;
\*    "null" null or undefined; "num" a number; "objNum" an object whose
\*    name is a non-zero number
SkillEntry(k, name, importance, proficiency, required) ==
    [k |-> k, name |-> name, importance |-> importance,
     proficiency |-> proficiency, level |-> NoNumber, required |-> required]

StrSkill(name) == SkillEntry("str", name, NoNumber, NoNumber, FALSE)
ObjSkill(name, importance, proficiency, required) ==
    SkillEntry("obj", name, importance, proficiency, required)

EmptyData == [skills |-> <<>>, repositories |-> <<>>, bio |-> "", experience |-> <<>>]

EmptyObj ==
    [skills |-> <<>>, data |-> EmptyData, platform |-> "", username |-> "",
     title |-> "", description |-> "", bio |-> "", company |-> ""]

(***************************************************************************)
(* extractSkills                                                           *)
(***************************************************************************)
\* typeof skill === 'string' ? skill : (skill.name || '')
skillEntryName(e) == IF e.k \in {"str", "obj"} THEN e.name ELSE ""

\* reading .name of null throws; a numeric name survives filter(Boolean) and
\* fails at s?.trim()
skillEntryThrows(e) == e.k \in {"null", "objNum"}

\* obj.skills.map(...).filter(Boolean)
namesOfEntries(entries) ==
    LET names == [i \in 1..Len(entries) |-> skillEntryName(entries[i])]
    IN  SelectIdx(names, LAMBDA i : names[i] # "")

repositorySkills(repo) ==
    repo.languages \o repo.technologies
        \o (IF repo.language # "" THEN <<repo.language>> ELSE <<>>)
        \o extractTechKeywords(repo.name)
        \o extractTechKeywords(repo.description)

dataSkills(obj) ==
    namesOfEntries(obj.data.skills)
        \o Flatten([i \in 1..Len(obj.data.repositories) |->
                        repositorySkills(obj.data.repositories[i])])
        \o extractTechKeywords(obj.data.bio)

isLinkedInUrl(username) == username # "" /\ includes(username, "linkedin.com")

RECURSIVE lastPathPart(_)
\* parts[parts.length - 1] of username.split('/')
lastPathPart(s) ==
    IF s = "" THEN ""
    ELSE IF Char(s, Len(s)) = "/" THEN ""
    ELSE lastPathPart(SubSeq(s, 1, Len(s) - 1)) \o Char(s, Len(s))

RECURSIVE hyphensToSpaces(_)
\* lastPart.replace(/-/g, ' ')
hyphensToSpaces(s) ==
    IF s = "" THEN ""
    ELSE (IF Head(s) = "-" THEN " " ELSE Head(s)) \o hyphensToSpaces(Tail(s))

linkedInSkills(obj) ==
    IF obj.platform = "linkedin" \/ isLinkedInUrl(obj.username)
    THEN Flatten([i \in 1..Len(obj.data.experience) |->
                    extractTechKeywords(obj.data.experience[i].description)
                        \o extractTechKeywords(obj.data.experience[i].title)])
         \o (IF isLinkedInUrl(obj.username)
             THEN <<"LinkedIn", "Networking", "Professional", "Communication">>
                  \o (LET lastPart == lastPathPart(obj.username)
                      IN  IF lastPart # "" /\ ~includes(lastPart, "linkedin.com")
                          THEN extractTechKeywords(hyphensToSpaces(lastPart))
                          ELSE <<>>)
             ELSE <<>>)
    ELSE <<>>

gitHubSkills(obj) ==
    IF obj.platform = "github" \/ (obj.username # "" /\ ~includes(obj.username, "linkedin.com"))
    THEN (IF obj.username # "" /\ ~includes(obj.username, "http")
          THEN <<"GitHub", "Git", "Version Control",
                 "Programming", "Software Development", "Coding">>
          ELSE <<>>)
         \o Flatten([i \in 1..Len(obj.data.repositories) |->
                (IF obj.data.repositories[i].language # ""
                 THEN <<obj.data.repositories[i].language>> ELSE <<>>)
                \o obj.data.repositories[i].languages])
    ELSE <<>>

textSkills(obj) ==
    extractTechKeywords(obj.title)
        \o extractTechKeywords(obj.description)
        \o extractTechKeywords(obj.bio)

\* lines 494-510
usernameFallback(obj, skills) ==
    IF Len(skills) = 0 /\ obj.username # ""
    THEN LET usernameKeywords == extractTechKeywords(obj.username)
         IN  IF Len(usernameKeywords) > 0 THEN usernameKeywords
             ELSE IF obj.platform = "github" \/ ~includes(obj.username, "linkedin.com")
                  THEN <<"GitHub", "Programming", "Software Development", "Coding">>
             ELSE <<"LinkedIn", "Professional Networking", "Communication",
                    "Professional Skills">>
    ELSE skills

\* lines 512-519
companyFallback(obj, skills) ==
    IF Len(skills) = 0 /\ obj.company # ""
    THEN extractTechKeywords(obj.company) \o <<"Professional", "Communication", "Teamwork">>
    ELSE skills

\* [...new Set(skills.map(s => s?.trim()).filter(Boolean))]
cleanSkills(skills) ==
    LET trimmed == [i \in 1..Len(skills) |-> trim(skills[i])]
    IN  Dedup(SelectIdx(trimmed, LAMBDA i : trimmed[i] # ""))

collectedSkills(obj) ==
    namesOfEntries(obj.skills) \o dataSkills(obj) \o linkedInSkills(obj)
        \o gitHubSkills(obj) \o textSkills(obj)

extractSkillsThrows(obj) ==
    \/ \E i \in 1..Len(obj.skills) : skillEntryThrows(obj.skills[i])
    \/ \E i \in 1..Len(obj.data.skills) : skillEntryThrows(obj.data.skills[i])

\* the array extractSkills returns when it does not throw
extractSkills(obj) ==
    cleanSkills(companyFallback(obj, usernameFallback(obj, collectedSkills(obj))))

(***************************************************************************)
(* performLocalMatch                                                       *)
(***************************************************************************)
similarityThreshold == Rat(6, 10)

fallbackJobSkills == <<"communication", "teamwork", "problem solving", "professional">>

\* lines 242-244 without the fixed list
effectiveJobSkillsOf_noFallback(jobSkills) == jobSkills

\* lines 242-244
effectiveJobSkillsOf(jobSkills) ==
    IF Len(jobSkills) > 0 THEN jobSkills ELSE fallbackJobSkills

\* the test of lines 264 and 275 with > for >=
isSimilarEnough_strict(pSkill, jSkill) ==
    LT(similarityThreshold,
       calculateStringSimilarity(toLowerCase(pSkill), toLowerCase(jSkill)))

\* the test of lines 264 and 275
isSimilarEnough(pSkill, jSkill) ==
    GE(calculateStringSimilarity(toLowerCase(pSkill), toLowerCase(jSkill)),
       similarityThreshold)

\* lines 261-270: the profile skills that find a job skill
matchedSkillsOf(profileSkills, effectiveJobSkills) ==
    SelectIdx(profileSkills, LAMBDA i :
        /\ \E k \in 1..Len(effectiveJobSkills) :
               isSimilarEnough(profileSkills[i], effectiveJobSkills[k])
        /\ \A j \in 1..(i - 1) : profileSkills[j] # profileSkills[i])

\* lines 273-277: the job skills no profile skill reaches
missingSkillsOf(profileSkills, effectiveJobSkills) ==
    SelectIdx(effectiveJobSkills, LAMBDA k :
        ~\E i \in 1..Len(profileSkills) :
            isSimilarEnough(profileSkills[i], effectiveJobSkills[k]))

\* line 284 without the clamp
validScore_unclamped(score) == IF score.nan THEN Rat(1, 2) ELSE score

\* line 284: isNaN(score) ? 0.5 : Math.max(0, Math.min(1, score))
validScore(score) ==
    IF score.nan THEN Rat(1, 2)
    ELSE IF score.n > score.d THEN Rat(1, 1)
    ELSE IF score.n < 0 THEN Rat(0, 1)
    ELSE score

MatchResult(threw, score, matched, missing, message) ==
    [threw |-> threw, overall_score |-> score, skill_match |-> score,
     skills_matched |-> matched, skills_missing |-> missing,
     message |-> message, error |-> FALSE, platforms |-> <<>>]

\* the call ended in a TypeError, nothing was returned
Thrown == MatchResult(TRUE, NaN, <<>>, <<>>, "")

\* lines 248-254, listing the job's own skills instead of the effective ones
noProfileSkillsResult_ownSkills(jobSkills) ==
    MatchResult(FALSE, Rat(3, 10), <<>>, jobSkills,
                "No profile skills found for matching")

\* lines 248-254
noProfileSkillsResult(jobSkills) ==
    MatchResult(FALSE, Rat(3, 10), <<>>, effectiveJobSkillsOf(jobSkills),
                "No profile skills found for matching")

\* lines 257-292
scoredResult(profileSkills, effectiveJobSkills) ==
    LET matchedSkills == matchedSkillsOf(profileSkills, effectiveJobSkills)
        missingSkills == missingSkillsOf(profileSkills, effectiveJobSkills)
        score == IF Len(effectiveJobSkills) > 0
                 THEN Div(Len(matchedSkills), Len(effectiveJobSkills))
                 ELSE Rat(1, 2)
    IN  MatchResult(FALSE, validScore(score), matchedSkills, missingSkills,
                    "Found matching skills")

performLocalMatch(profile, j) ==
    IF extractSkillsThrows(profile) \/ extractSkillsThrows(j) THEN Thrown
    ELSE LET profileSkills == extractSkills(profile)
             jobSkills == extractSkills(j)
         IN  IF Len(profileSkills) = 0
             THEN noProfileSkillsResult(jobSkills)
             ELSE scoredResult(profileSkills, effectiveJobSkillsOf(jobSkills))

(***************************************************************************)
(* calculateMatch and calculateCombinedMatch                               *)
(***************************************************************************)
stringEntries(names) == [i \in 1..Len(names) |-> StrSkill(names[i])]

\* lines 107-112 and 153-158: the job object is assigned a skills list
withDescriptionSkills(j) ==
    IF j.description # "" /\ Len(j.skills) = 0
    THEN [j EXCEPT !.skills = stringEntries(extractTechKeywords(j.description))]
    ELSE j

\* the object the catch blocks return
caughtResult(platforms) ==
    [threw |-> FALSE, overall_score |-> Rat(1, 2), skill_match |-> Rat(1, 2),
     skills_matched |-> <<>>, skills_missing |-> <<>>,
     message |-> "", error |-> TRUE, platforms |-> platforms]

\* lines 102-140 with the match computed on the job as it was handed in
calculateMatch_beforeAssignment(profile, j) ==
    LET r == performLocalMatch(profile, j)
    IN  IF r.threw THEN caughtResult(<<>>) ELSE r

calculateMatch(profile, j) ==
    LET r == performLocalMatch(profile, withDescriptionSkills(j))
    IN  IF r.threw THEN caughtResult(<<>>) ELSE r

\* profiles.map(p => p.platform).filter(Boolean)
platformsOf(ps) ==
    SelectIdx([i \in 1..Len(ps) |-> ps[i].platform], LAMBDA i : ps[i].platform # "")

\* lines 161-169 with the array replaced, not extended, at each profile
uniqueSkillsOf_lastProfileOnly(ps) ==
    IF Len(ps) = 0 THEN <<>> ELSE extractSkills(ps[Len(ps)])

\* lines 161-169: [...new Set(allProfileSkills)]
uniqueSkillsOf(ps) ==
    Dedup(Flatten([i \in 1..Len(ps) |-> extractSkills(ps[i])]))

calculateCombinedMatch(ps, j) ==
    IF \E i \in 1..Len(ps) : extractSkillsThrows(ps[i])
    THEN caughtResult(platformsOf(ps))
    ELSE LET profileObj == [EmptyObj EXCEPT !.skills = stringEntries(uniqueSkillsOf(ps))]
             r == performLocalMatch(profileObj, withDescriptionSkills(j))
         IN  IF r.threw THEN caughtResult(platformsOf(ps))
             ELSE [r EXCEPT !.platforms = platformsOf(ps)]

(***************************************************************************)
(* Inputs of the match requests                                            *)
(***************************************************************************)
MaxProfileSkills == 2
MaxJobSkills == 2
MaxProfiles == 2
MaxCombinedSkills == 1

SeqsUpTo(S, n) == UNION {[1..k -> S] : k \in 0..n}

ProfileSkillEntries ==
    {StrSkill("React"), ObjSkill("ReactJS", NoNumber, NoNumber, FALSE), StrSkill("bash")}

JobSkillEntries ==
    {StrSkill("react"), StrSkill("basash"),
     ObjSkill("Python", NoNumber, NoNumber, TRUE)}

\* title, description, company
JobTexts ==
    {<<"", "", "">>, <<"React developer", "Python expert", "">>, <<"", "", "Acme">>}

ProfileOf(skills, platform, username) ==
    [EmptyObj EXCEPT !.skills = skills, !.platform = platform, !.username = username]

JobOf(skills, text) ==
    [EmptyObj EXCEPT !.skills = skills, !.title = text[1],
                     !.description = text[2], !.company = text[3]]

Profiles ==
    {ProfileOf(sk, "", u) :
        sk \in SeqsUpTo(ProfileSkillEntries, MaxProfileSkills), u \in {"", "alice"}}

Jobs ==
    {JobOf(sk, t) : sk \in SeqsUpTo(JobSkillEntries, MaxJobSkills), t \in JobTexts}

Init ==
    /\ profiles \in {<<p>> : p \in Profiles}
    /\ job \in Jobs
    /\ job0 = job
    /\ str1 = ""
    /\ str2 = ""
    /\ result = [none |-> TRUE]
    /\ op = "none"

\* performLocalMatch(profile, job)
PerformLocalMatch ==
    /\ op' = "performLocalMatch"
    /\ result' = performLocalMatch(profiles[1], job)
    /\ UNCHANGED <<profiles, job, job0, str1, str2>>

\* await calculateMatch(profile, job)
CalculateMatch ==
    /\ op' = "calculateMatch"
    /\ job' = withDescriptionSkills(job)
    /\ result' = calculateMatch(profiles[1], job)
    /\ UNCHANGED <<profiles, job0, str1, str2>>

Next == PerformLocalMatch \/ CalculateMatch

Spec == Init /\ [][Next]_vars

(***************************************************************************)
(* Properties of performLocalMatch                                         *)
(***************************************************************************)
\* what the last performLocalMatch call saw
seenProfileSkills == extractSkills(profiles[1])
seenJobSkills == extractSkills(job)
seenEffectiveJobSkills ==
    IF seenJobSkills = <<>>
    THEN <<"communication", "teamwork", "problem solving", "professional">>
    ELSE seenJobSkills

returnedByPerformLocalMatch == op = "performLocalMatch" /\ ~result.threw

LowerNames(seq) == {toLowerCase(seq[i]) : i \in 1..Len(seq)}

\* C1: the overall_score performLocalMatch returns is a number, never NaN,
\* with 0 <= overall_score <= 1, whatever the profile and the job
C1_ScoreInUnitInterval ==
    returnedByPerformLocalMatch =>
        /\ ~result.overall_score.nan
        /\ result.overall_score.d > 0
        /\ 0 <= result.overall_score.n
        /\ result.overall_score.n <= result.overall_score.d

\* more profile skills matched than the job has skills: the ratio is above 1
\* before line 284 clamps it
C1_Witness ==
    /\ returnedByPerformLocalMatch
    /\ Len(result.skills_matched) > Len(seenEffectiveJobSkills)
    /\ EQ(result.overall_score, Rat(1, 1))

\* C2: for a non-empty profile skill set, the names of skills_matched and of
\* skills_missing together are exactly the effective job skill names, and no
\* name is in both lists (names compared case-insensitively)
C2_MatchedAndMissingPartitionJobSkills ==
    (returnedByPerformLocalMatch /\ Len(seenProfileSkills) > 0) =>
        /\ LowerNames(result.skills_matched) \cup LowerNames(result.skills_missing)
               = LowerNames(seenEffectiveJobSkills)
        /\ LowerNames(result.skills_matched) \cap LowerNames(result.skills_missing) = {}

\* C4: a profile that yields no skills gets overall_score 0.3, no matched
\* skill and the whole effective job skill set as skills_missing, and the
\* call returns
C4_NoProfileSkillsResult ==
    (op = "performLocalMatch" /\ Len(seenProfileSkills) = 0) =>
        /\ ~result.threw
        /\ ~result.error
        /\ EQ(result.overall_score, Rat(3, 10))
        /\ result.skills_matched = <<>>
        /\ result.skills_missing = seenEffectiveJobSkills

\* no profile skill, and a job whose effective skills are the fixed fallback
C4_Witness ==
    /\ op = "performLocalMatch"
    /\ Len(seenProfileSkills) = 0
    /\ seenJobSkills = <<>>
    /\ Len(result.skills_missing) = 4

\* C5: an effective job skill is in skills_missing iff no profile skill has
\* similarity >= 0.6 with it (lower-cased); exactly 0.6 is a match
C5_MissingIffBelowThreshold ==
    returnedByPerformLocalMatch =>
        LET pNames == LowerNames(seenProfileSkills)
            jSkills == seenEffectiveJobSkills
            missing == Range(result.skills_missing)
        IN  \A k \in 1..Len(jSkills) :
                (jSkills[k] \in missing)
                <=> ~\E p \in pNames :
                        GE(calculateStringSimilarity(p, toLowerCase(jSkills[k])),
                           Rat(6, 10))

\* "bash" against "basash" scores exactly 0.6 and no other profile skill
\* reaches "basash": it is not missing
C5_Witness ==
    /\ returnedByPerformLocalMatch
    /\ seenProfileSkills = <<"bash">>
    /\ "basash" \in Range(seenEffectiveJobSkills)
    /\ EQ(calculateStringSimilarity("bash", "basash"), Rat(6, 10))
    /\ "basash" \notin Range(result.skills_missing)

\* C14: the effective job skill set performLocalMatch compares against is
\* never empty; for a job with no skills, description, title or company it
\* is communication, teamwork, problem solving, professional; every missing
\* skill comes from it, and with no profile skill all of it is missing
C14_EffectiveJobSkillsNeverEmpty ==
    (op \in {"performLocalMatch", "calculateMatch"} /\ ~result.threw /\ ~result.error) =>
        LET effectiveJobSkills == effectiveJobSkillsOf(extractSkills(job))
        IN  /\ Len(effectiveJobSkills) > 0
            /\ ( /\ job.skills = <<>> /\ job.description = ""
                 /\ job.title = "" /\ job.company = "" )
               => effectiveJobSkills =
                      <<"communication", "teamwork", "problem solving", "professional">>
            /\ Range(result.skills_missing) \subseteq Range(effectiveJobSkills)
            /\ Len(seenProfileSkills) = 0 => result.skills_missing = effectiveJobSkills

\* a profile with skills against a job record that says nothing: none of the
\* four fixed skills is reached
C14_Witness ==
    /\ op = "performLocalMatch"
    /\ ~result.threw
    /\ job = EmptyObj
    /\ Len(seenProfileSkills) > 0
    /\ result.skills_matched = <<>>
    /\ result.skills_missing =
           <<"communication", "teamwork", "problem solving", "professional">>
    /\ EQ(result.overall_score, Rat(0, 1))

\* no two names of the list are equal when compared case-insensitively
noCaseInsensitiveDuplicate(names) ==
    \A i, k \in 1..Len(names) :
        i < k => toLowerCase(names[i]) # toLowerCase(names[k])

\* C15: the skill set extractSkills returns for the profile and for the job
\* holds no two names that are equal case-insensitively
C15_SkillSetsDeduplicatedIgnoringCase ==
    (op \in {"performLocalMatch", "calculateMatch"} /\ ~result.threw /\ ~result.error) =>
        /\ noCaseInsensitiveDuplicate(extractSkills(profiles[1]))
        /\ noCaseInsensitiveDuplicate(extractSkills(job))

\* C16: a calculateMatch call that follows a calculateMatch call on the same
\* profile and job objects returns the same result, order of the lists
\* included
C16_SecondCallReturnsSameResult ==
    [][(op = "calculateMatch" /\ op' = "calculateMatch") => result' = result]_vars

\* a first call has returned and has left the job object changed; the call
\* repeated on the objects as they are now returns what the first returned
C16_Witness ==
    /\ op = "calculateMatch"
    /\ job # job0
    /\ Len(result.skills_missing) > 1
    /\ result = calculateMatch(profiles[1], job)

\* C17: when calculateMatch has returned, the job record, its skills list
\* included, is as it was handed in
C17_MatchLeavesJobUnchanged ==
    op = "calculateMatch" => job = job0

platformDefaultSkills ==
    {"GitHub", "Git", "Version Control", "Programming", "Software Development",
     "Coding", "LinkedIn", "Networking", "Professional", "Communication"}

\* C21: a profile that has explicit skills gets none of the platform default
\* skills in its skill set
C21_NoDefaultSkillsBesideExplicitSkills ==
    ( /\ op \in {"performLocalMatch", "calculateMatch"}
      /\ ~result.threw /\ ~result.error
      /\ namesOfEntries(profiles[1].skills) # <<>> )
        => Range(extractSkills(profiles[1])) \cap platformDefaultSkills = {}

\* C23: for a job with a non-empty explicit skills list the job skill set
\* holds exactly the names of that list
C23_ExplicitJobSkillsOnly ==
    ( /\ op = "performLocalMatch" /\ ~result.threw
      /\ namesOfEntries(job.skills) # <<>> )
        => Range(extractSkills(job)) = Range(namesOfEntries(job.skills))

(***************************************************************************)
(* Skill lists with malformed entries                                      *)
(***************************************************************************)
\* null, 5, {} and {name: 5} next to a well-formed 'React'
MalformedSkillEntries ==
    {StrSkill("React"),
     SkillEntry("null", "", NoNumber, NoNumber, FALSE),
     SkillEntry("num", "", NoNumber, NoNumber, FALSE),
     ObjSkill("", NoNumber, NoNumber, FALSE),
     SkillEntry("objNum", "", NoNumber, NoNumber, FALSE)}

InitMalformed ==
    /\ profiles \in {<<ProfileOf(sk, "", "")>> :
                        sk \in SeqsUpTo(MalformedSkillEntries, MaxProfileSkills)}
    /\ job \in {JobOf(sk, <<"", "", "">>) :
                        sk \in SeqsUpTo({StrSkill("react"),
                                         SkillEntry("null", "", NoNumber, NoNumber, FALSE)},
                                        MaxJobSkills)}
    /\ job0 = job
    /\ str1 = ""
    /\ str2 = ""
    /\ result = [none |-> TRUE]
    /\ op = "none"

SpecMalformed == InitMalformed /\ [][Next]_vars

\* the record with only its well-formed skill entries: strings and objects
\* with a non-empty string name
withoutMalformedEntries(obj) ==
    [obj EXCEPT !.skills =
        SelectIdx(obj.skills, LAMBDA i :
            \/ obj.skills[i].k = "str"
            \/ (obj.skills[i].k = "obj" /\ obj.skills[i].name # ""))]

\* C18: performLocalMatch returns, and returns what it returns for the same
\* records without their malformed skill entries
C18_MalformedEntriesAreDropped ==
    op = "performLocalMatch" =>
        /\ ~result.threw
        /\ result = performLocalMatch(withoutMalformedEntries(profiles[1]),
                                      withoutMalformedEntries(job))

(***************************************************************************)
(* Profiles known by a username or a profile URL                           *)
(***************************************************************************)
Usernames ==
    {"", "alice", "https://github.com/alice", "https://linkedin.com/in/bob-smith"}

\* a skill name and a name made of white space only
UsernameSkillEntries == {StrSkill("React"), StrSkill(" ")}

InitUsernames ==
    /\ profiles \in {<<ProfileOf(sk, pf, u)>> :
                        sk \in SeqsUpTo(UsernameSkillEntries, MaxProfileSkills),
                        pf \in {"", "github", "linkedin"},
                        u \in Usernames}
    /\ job \in {JobOf(sk, <<"", "", "">>) :
                        sk \in SeqsUpTo({StrSkill("react")}, MaxJobSkills)}
    /\ job0 = job
    /\ str1 = ""
    /\ str2 = ""
    /\ result = [none |-> TRUE]
    /\ op = "none"

SpecUsernames == InitUsernames /\ [][Next]_vars

\* C22: a profile with a non-empty username has a non-empty skill set, and
\* performLocalMatch does not answer it with the 0.3 no-skills result
C22_UsernameGivesSkills ==
    (op = "performLocalMatch" /\ ~result.threw /\ profiles[1].username # "") =>
        /\ Len(extractSkills(profiles[1])) > 0
        /\ result.message # "No profile skills found for matching"

(***************************************************************************)
(* Direct keyword extraction                                               *)
(***************************************************************************)
LeadingTexts ==
    {"", "React", "uses", "Senior Python", "built with", "my", "see", "Go"}

\* words shaped like the four patterns of lines 566-569, and one that is not
ShapedTokens ==
    {"foo-bar", "myLib", "MyLib", "main.py", "index.html", "plain", "node-js",
     "dataLoader"}

\* the text handed to extractTechKeywords
textOf(leading, token) == IF leading = "" THEN token ELSE leading \o " " \o token

InitKeywords ==
    /\ str1 \in LeadingTexts
    /\ str2 \in ShapedTokens
    /\ profiles = <<>>
    /\ job = EmptyObj
    /\ job0 = EmptyObj
    /\ result = [none |-> TRUE]
    /\ op = "none"

\* extractTechKeywords(text)
ExtractTechKeywords ==
    /\ op = "none"
    /\ op' = "extractTechKeywords"
    /\ result' = [text |-> textOf(str1, str2),
                  keywords |-> extractTechKeywords(textOf(str1, str2))]
    /\ UNCHANGED <<profiles, job, job0, str1, str2>>

NextKeywords == ExtractTechKeywords

SpecKeywords == InitKeywords /\ [][NextKeywords]_vars

\* C24: every word of the text that has one of the four shapes (camelCase,
\* PascalCase, file-extension-like suffix, hyphenated compound) is among the
\* returned keywords, lower-cased
C24_ShapedWordsAreReturned ==
    op = "extractTechKeywords" =>
        LET tokens == splitWhitespace(result.text)
        IN  \A i \in 1..Len(tokens) :
                looksLikeTechWord(tokens[i])
                    => toLowerCase(tokens[i]) \in Range(result.keywords)

(***************************************************************************)
(* Combined matching                                                       *)
(***************************************************************************)
CombinedSkillEntries == {StrSkill("Python"), StrSkill("Docker")}

CombinedProfiles ==
    {ProfileOf(sk, pf, "") :
        sk \in SeqsUpTo(CombinedSkillEntries, MaxCombinedSkills), pf \in {"", "github"}}

CombinedJobTexts ==
    {<<"", "", "">>, <<"React developer", "Python expert", "">>, <<"", "Python expert", "">>}

CombinedJobs ==
    {JobOf(sk, t) : sk \in SeqsUpTo(CombinedSkillEntries, MaxJobSkills),
                    t \in CombinedJobTexts}

InitCombined ==
    /\ profiles \in SeqsUpTo(CombinedProfiles, MaxProfiles)
    /\ job \in CombinedJobs
    /\ job0 = job
    /\ str1 = ""
    /\ str2 = ""
    /\ result = [none |-> TRUE]
    /\ op = "none"

\* await calculateCombinedMatch(selectedCombinedProfiles, job)
CalculateCombinedMatch ==
    /\ op' = "calculateCombinedMatch"
    /\ job' = withDescriptionSkills(job)
    /\ result' = calculateCombinedMatch(profiles, job)
    /\ UNCHANGED <<profiles, job0, str1, str2>>

NextCombined == CalculateCombinedMatch

SpecCombined == InitCombined /\ [][NextCombined]_vars

\* a single profile whose skill list is the de-duplicated union of the
\* skills extracted from each profile
unionProfile ==
    LET each == [i \in 1..Len(profiles) |-> extractSkills(profiles[i])]
        all == Flatten(each)
        union == SelectIdx(all, LAMBDA i : all[i] \notin {all[j] : j \in 1..(i - 1)})
    IN  [EmptyObj EXCEPT !.skills = [i \in 1..Len(union) |-> StrSkill(union[i])]]

\* C9: calculateCombinedMatch returns the overall_score, skills_matched and
\* skills_missing that performLocalMatch returns for the union profile and
\* the same job object; against the job record as it was handed in the
\* score and skills_matched are the same and skills_missing lists the same
\* names.  Profiles {Python} and {Docker} against a job requiring
\* {Python, Docker} score 1.0.
C9_CombinedIsLocalMatchOfUnion ==
    op = "calculateCombinedMatch" =>
        /\ ~result.error
        /\ LET single == performLocalMatch(unionProfile, job)
           IN  /\ EQ(result.overall_score, single.overall_score)
               /\ result.skills_matched = single.skills_matched
               /\ result.skills_missing = single.skills_missing
        /\ LET before == performLocalMatch(unionProfile, job0)
           IN  /\ EQ(result.overall_score, before.overall_score)
               /\ result.skills_matched = before.skills_matched
               /\ Range(result.skills_missing) = Range(before.skills_missing)
               /\ Len(result.skills_missing) = Len(before.skills_missing)
        /\ ( /\ Len(profiles) = 2
             /\ extractSkills(profiles[1]) = <<"Python">>
             /\ extractSkills(profiles[2]) = <<"Docker">>
             /\ extractSkills(job0) = <<"Python", "Docker">> )
           => EQ(result.overall_score, Rat(1, 1))

\* scenario D: two profiles, one skill each, both needed by the job
C9_Witness ==
    /\ op = "calculateCombinedMatch"
    /\ Len(profiles) = 2
    /\ extractSkills(profiles[1]) = <<"Python">>
    /\ extractSkills(profiles[2]) = <<"Docker">>
    /\ extractSkills(job0) = <<"Python", "Docker">>
    /\ EQ(result.overall_score, Rat(1, 1))
    /\ result.skills_matched = <<"Python", "Docker">>
    /\ result.skills_missing = <<>>

(***************************************************************************)
(* Home.js: calculateLocalMatch, extractProfileSkills, extractJobSkills    *)
(* Arithmetic is exact; the code's double arithmetic agrees with it except *)
(* possibly where a percentage falls exactly on a half.                    *)
(***************************************************************************)
Mul(a, b) == IF a.nan \/ b.nan THEN NaN ELSE Rat(a.n * b.n, a.d * b.d)
Add(a, b) == IF a.nan \/ b.nan THEN NaN ELSE Rat(a.n * b.d + b.n * a.d, a.d * b.d)

\* a / b on numbers: 0 / 0 is NaN (no other division by zero arises: the
\* numerator is zero whenever the denominator is)
Quot(a, b) ==
    IF a.nan \/ b.nan \/ b.n = 0 THEN NaN ELSE Rat(a.n * b.d, a.d * b.n)

\* Math.round(x * 100) for x >= 0; NaN stays NaN
roundPercent(x) ==
    IF x.nan THEN NaN ELSE Rat((200 * x.n + x.d) \div (2 * x.d), 1)

\* truthiness of a number: NaN, undefined and 0 are falsy
truthy(x) == ~x.nan /\ x.n # 0

\* x || y on numbers
orElse(x, y) == IF truthy(x) THEN x ELSE y

\* lines 1018-1037
extractProfileSkills(profile) ==
    LET kept == SelectIdx(profile.skills, LAMBDA i :
                    \/ profile.skills[i].k = "str"
                    \/ (profile.skills[i].k = "obj" /\ profile.skills[i].name # ""))
    IN  [i \in 1..Len(kept) |->
            IF kept[i].k = "str" THEN [name |-> kept[i].name]
            ELSE [name |-> kept[i].name,
                  proficiency |-> orElse(kept[i].proficiency,
                                         orElse(kept[i].level, Rat(1, 1)))]]

\* lines 1040-1059 with a required skill given importance 1.0
extractJobSkills_requiredWeighs(j) ==
    LET kept == SelectIdx(j.skills, LAMBDA i :
                    \/ j.skills[i].k = "str"
                    \/ (j.skills[i].k = "obj" /\ j.skills[i].name # ""))
    IN  [i \in 1..Len(kept) |->
            IF kept[i].k = "str" THEN [name |-> kept[i].name, importance |-> Rat(1, 2)]
            ELSE [name |-> kept[i].name,
                  importance |-> IF kept[i].required THEN Rat(1, 1)
                                 ELSE orElse(kept[i].importance, Rat(1, 2))]]

\* lines 1040-1059: name and importance are copied, nothing else
extractJobSkills(j) ==
    LET kept == SelectIdx(j.skills, LAMBDA i :
                    \/ j.skills[i].k = "str"
                    \/ (j.skills[i].k = "obj" /\ j.skills[i].name # ""))
    IN  [i \in 1..Len(kept) |->
            IF kept[i].k = "str" THEN [name |-> kept[i].name, importance |-> Rat(1, 2)]
            ELSE [name |-> kept[i].name,
                  importance |-> orElse(kept[i].importance, Rat(1, 2))]]

\* jobSkill.required || false
requiredOf(skill) == IF "required" \in DOMAIN skill THEN skill.required ELSE FALSE

\* matchingSkill.proficiency || 1.0
proficiencyOf(skill) ==
    IF "proficiency" \in DOMAIN skill THEN orElse(skill.proficiency, Rat(1, 1))
    ELSE Rat(1, 1)

\* the test of lines 930-934
namesOverlap(profileSkill, jobSkillName) ==
    LET n == toLowerCase(profileSkill.name)
    IN  n = jobSkillName \/ includes(n, jobSkillName) \/ includes(jobSkillName, n)

\* profileSkills.find(...): the index of the first hit, 0 when there is none
findMatchingSkill(profileSkills, jobSkillName) ==
    LET hits == {i \in 1..Len(profileSkills) : namesOverlap(profileSkills[i], jobSkillName)}
    IN  IF hits = {} THEN 0 ELSE CHOOSE i \in hits : \A h \in hits : i <= h

matchEntry(jobSkill, importance, matchingSkill, jobSkillName) ==
    LET proficiency == proficiencyOf(matchingSkill)
        matchQuality == IF toLowerCase(matchingSkill.name) = jobSkillName
                        THEN Rat(1, 1) ELSE Rat(7, 10)
        matchScore == Mul(matchQuality, proficiency)
    IN  [skill_name |-> jobSkill.name, importance |-> importance,
         proficiency |-> proficiency, match_quality |-> matchQuality,
         match_score |-> matchScore, weighted_score |-> Mul(importance, matchScore),
         required |-> requiredOf(jobSkill)]

\* the loop body with totalImportance counted for matched skills only
matchJobSkill_totalOfMatched(acc, jobSkill, profileSkills) ==
    LET jobSkillName == toLowerCase(jobSkill.name)
        importance == orElse(jobSkill.importance, Rat(1, 2))
        found == findMatchingSkill(profileSkills, jobSkillName)
    IN  IF found > 0
        THEN LET entry == matchEntry(jobSkill, importance, profileSkills[found], jobSkillName)
             IN  [acc EXCEPT !.totalImportance = Add(@, importance),
                             !.matchedImportance = Add(@, entry.weighted_score),
                             !.skillMatches = Append(@, entry)]
        ELSE [acc EXCEPT !.missingSkills =
                    Append(@, [name |-> jobSkill.name, importance |-> importance,
                               required |-> requiredOf(jobSkill)])]

\* lines 924-970: the body of jobSkills.forEach
matchJobSkill(acc, jobSkill, profileSkills) ==
    LET jobSkillName == toLowerCase(jobSkill.name)
        importance == orElse(jobSkill.importance, Rat(1, 2))
        found == findMatchingSkill(profileSkills, jobSkillName)
    IN  IF found > 0
        THEN LET entry == matchEntry(jobSkill, importance, profileSkills[found], jobSkillName)
             IN  [acc EXCEPT !.totalImportance = Add(@, importance),
                             !.matchedImportance = Add(@, entry.weighted_score),
                             !.skillMatches = Append(@, entry)]
        ELSE [acc EXCEPT !.totalImportance = Add(@, importance),
                         !.missingSkills =
                             Append(@, [name |-> jobSkill.name, importance |-> importance,
                                        required |-> requiredOf(jobSkill)])]

RECURSIVE forEachJobSkill(_, _, _)
forEachJobSkill(acc, jobSkills, profileSkills) ==
    IF jobSkills = <<>> THEN acc
    ELSE forEachJobSkill(matchJobSkill(acc, Head(jobSkills), profileSkills),
                         Tail(jobSkills), profileSkills)

\* lines 976-987 with > for >=
bandText_strictBounds(overallMatch) ==
    IF LT(Rat(85, 1), overallMatch)
    THEN "Excellent Match: This candidate has most of the required skills and would be an excellent fit for this position."
    ELSE IF LT(Rat(70, 1), overallMatch)
    THEN "Good Match: This candidate has many of the required skills and would likely be a good fit with some training."
    ELSE IF LT(Rat(50, 1), overallMatch)
    THEN "Moderate Match: This candidate has some of the required skills but may need significant training or may not be ideal for this specific role."
    ELSE IF LT(Rat(30, 1), overallMatch)
    THEN "Weak Match: This candidate is missing many critical skills required for this position."
    ELSE "Poor Match: This candidate does not appear to have the necessary skills for this position."

\* lines 976-987
bandText(overallMatch) ==
    IF GE(overallMatch, Rat(85, 1))
    THEN "Excellent Match: This candidate has most of the required skills and would be an excellent fit for this position."
    ELSE IF GE(overallMatch, Rat(70, 1))
    THEN "Good Match: This candidate has many of the required skills and would likely be a good fit with some training."
    ELSE IF GE(overallMatch, Rat(50, 1))
    THEN "Moderate Match: This candidate has some of the required skills but may need significant training or may not be ideal for this specific role."
    ELSE IF GE(overallMatch, Rat(30, 1))
    THEN "Weak Match: This candidate is missing many critical skills required for this position."
    ELSE "Poor Match: This candidate does not appear to have the necessary skills for this position."

\* the text appended at line 992
missingRequiredNote(count) == " Missing " \o ToString(count) \o " required skill(s)."

\* lines 989-993
recommendationOf(overallMatch, missingSkills) ==
    LET missingRequiredSkills == SelectIdx(missingSkills, LAMBDA i : missingSkills[i].required)
    IN  IF Len(missingRequiredSkills) > 0
        THEN bandText(overallMatch) \o missingRequiredNote(Len(missingRequiredSkills))
        ELSE bandText(overallMatch)

\* lines 996-998 without the test on importance
strengthsOf_anyImportance(skillMatches) ==
    LET strong == SelectIdx(skillMatches, LAMBDA i :
                      GE(skillMatches[i].match_score, Rat(7, 10)))
    IN  [i \in 1..Len(strong) |-> strong[i].skill_name]

\* lines 996-998
strengthsOf(skillMatches) ==
    LET strong == SelectIdx(skillMatches, LAMBDA i :
                      /\ GE(skillMatches[i].importance, Rat(7, 10))
                      /\ GE(skillMatches[i].match_score, Rat(7, 10)))
    IN  [i \in 1..Len(strong) |-> strong[i].skill_name]

\* lines 914-1015 (id and created_at, taken from the clock, are left out)
calculateLocalMatch(profile, j) ==
    LET profileSkills == extractProfileSkills(profile)
        jobSkills == extractJobSkills(j)
        acc == forEachJobSkill(
                   [totalImportance |-> Rat(0, 1), matchedImportance |-> Rat(0, 1),
                    skillMatches |-> <<>>, missingSkills |-> <<>>],
                   jobSkills, profileSkills)
        overallMatch == roundPercent(Quot(acc.matchedImportance, acc.totalImportance))
    IN  [overall_match |-> overallMatch,
         skill_matches |-> acc.skillMatches,
         missing_skills |-> [i \in 1..Len(acc.missingSkills) |-> acc.missingSkills[i].name],
         missing_skills_details |-> acc.missingSkills,
         strengths |-> strengthsOf(acc.skillMatches),
         recommendation |-> recommendationOf(overallMatch, acc.missingSkills)]

(***************************************************************************)
(* MatchResultCard: the card shown for a match result, whether it has the  *)
(* fields of calculateLocalMatch or those of the match API                 *)
(***************************************************************************)
\* lines 223-235
generateRecommendation(score) ==
    IF GE(score, Rat(85, 1))
    THEN "Excellent Match: This candidate has most of the required skills and would be an excellent fit for this position."
    ELSE IF GE(score, Rat(70, 1))
    THEN "Good Match: This candidate has many of the required skills and would likely be a good fit with some training."
    ELSE IF GE(score, Rat(50, 1))
    THEN "Moderate Match: This candidate has some of the required skills but may need significant training or may not be ideal for this specific role."
    ELSE IF GE(score, Rat(30, 1))
    THEN "Weak Match: This candidate is missing many critical skills required for this position."
    ELSE "Poor Match: This candidate does not appear to have the necessary skills for this position."

\* a field that may be absent: undefined reads as NaN for a number
numberField(r, name) == IF name \in DOMAIN r THEN r[name] ELSE NaN

\* lines 168-211: processedResult (names, skill_matches and the timestamp,
\* which the card only displays, are left out)
processedResultOf(matchResult) ==
    LET overall_score == numberField(matchResult, "overall_score")
        overall_match == numberField(matchResult, "overall_match")
        given == IF "recommendation" \in DOMAIN matchResult
                 THEN matchResult.recommendation ELSE ""
    IN  [overall_match |->
             IF truthy(overall_score) THEN roundPercent(overall_score)
             ELSE orElse(overall_match, Rat(50, 1)),
         recommendation |->
             IF given # "" THEN given
             ELSE generateRecommendation(
                      IF truthy(overall_score) THEN Mul(overall_score, Rat(100, 1))
                      ELSE overall_match),
         strengths |->
             IF "strengths" \in DOMAIN matchResult THEN matchResult.strengths
             ELSE IF "skills_matched" \in DOMAIN matchResult
                     /\ Len(matchResult.skills_matched) > 0
                  THEN SubSeq(matchResult.skills_matched, 1,
                              Min2(5, Len(matchResult.skills_matched)))
             ELSE IF "skill_matches" \in DOMAIN matchResult
                  THEN strengthsOf(matchResult.skill_matches)
             ELSE <<>>,
         missing_skills |->
             IF "skills_missing" \in DOMAIN matchResult THEN matchResult.skills_missing
             ELSE IF "missing_skills" \in DOMAIN matchResult THEN matchResult.missing_skills
             ELSE <<>>]

\* overall_score values the match API may answer with
ApiScores ==
    {Rat(0, 1), Rat(29, 100), Rat(3, 10), Rat(1, 2), Rat(69, 100), Rat(7, 10),
     Rat(84, 100), Rat(85, 100), Rat(1, 1)}

\* response.data of matchProfileToJob, in the format with overall_score
ApiResults ==
    {[overall_score |-> score,
      skills_matched |-> IF score.n = 0 THEN <<>> ELSE <<"React">>,
      skills_missing |-> IF score.n = score.d THEN <<>> ELSE <<"Python">>] :
        score \in ApiScores}

HomeProfileSkillEntries ==
    {StrSkill("React"), StrSkill("Node.js"), StrSkill("ReactJS"),
     ObjSkill("python", NoNumber, Rat(1, 2), FALSE)}

HomeJobSkillEntries ==
    {ObjSkill("React", Rat(1, 1), NoNumber, TRUE),
     ObjSkill("Python", Rat(8, 10), NoNumber, TRUE),
     ObjSkill("Docker", NoNumber, NoNumber, FALSE),
     StrSkill("node")}

InitHome ==
    /\ profiles \in {<<ProfileOf(sk, "", "alice")>> :
                        sk \in SeqsUpTo(HomeProfileSkillEntries, MaxProfileSkills)}
    /\ job \in {JobOf(sk, <<"Engineer", "", "Acme">>) :
                        sk \in SeqsUpTo(HomeJobSkillEntries, MaxJobSkills)}
    /\ job0 = job
    /\ str1 = ""
    /\ str2 = ""
    /\ result = [none |-> TRUE]
    /\ op = "none"

\* matchResult = calculateLocalMatch(profile, job)
CalculateLocalMatch ==
    /\ op' = "calculateLocalMatch"
    /\ result' = calculateLocalMatch(profiles[1], job)
    /\ UNCHANGED <<profiles, job, job0, str1, str2>>

\* matchResult = await matchProfileToJob(profileId, jobId), the API answering
MatchProfileToJob ==
    /\ op' = "matchProfileToJob"
    /\ result' \in ApiResults
    /\ UNCHANGED <<profiles, job, job0, str1, str2>>

\* <MatchResultCard matchResult={match} />
MatchResultCard ==
    /\ op \in {"calculateLocalMatch", "matchProfileToJob"}
    /\ op' = "matchResultCard"
    /\ result' = [matchResult |-> result, processedResult |-> processedResultOf(result)]
    /\ UNCHANGED <<profiles, job, job0, str1, str2>>

NextHome == CalculateLocalMatch \/ MatchProfileToJob \/ MatchResultCard

SpecHome == InitHome /\ [][NextHome]_vars

(***************************************************************************)
(* Properties of calculateLocalMatch                                       *)
(***************************************************************************)
RECURSIVE SumOf(_)
SumOf(numbers) ==
    IF numbers = <<>> THEN Rat(0, 1) ELSE Add(Head(numbers), SumOf(Tail(numbers)))

\* the importance the job record gives its k-th skill, 0.5 when it gives none
givenImportance(k) ==
    IF job.skills[k].k = "obj" /\ ~job.skills[k].importance.nan
    THEN job.skills[k].importance ELSE Rat(1, 2)

scenarioA ==
    /\ [i \in 1..Len(profiles[1].skills) |-> profiles[1].skills[i].name]
           = <<"React", "Node.js">>
    /\ [i \in 1..Len(job.skills) |-> job.skills[i].name] = <<"React", "Python">>

\* C3: overall score = matchedImportance / totalImportance (reported as a
\* rounded percentage), totalImportance the sum of importance over all job
\* skills (0.5 when absent), matchedImportance the sum over matched skills of
\* importance x match_quality x proficiency; per entry match_score =
\* match_quality x proficiency and weighted_score = importance x match_score;
\* [React, Node.js] against [React 1.0, Python 0.8] gives 1.0/1.8, i.e. 56 %
C3_ScoreIsImportanceWeightedRatio ==
    op = "calculateLocalMatch" =>
        LET matches == result.skill_matches
            totalImportance ==
                SumOf([k \in 1..Len(job.skills) |-> givenImportance(k)])
            matchedImportance ==
                SumOf([i \in 1..Len(matches) |->
                    Mul(matches[i].importance,
                        Mul(matches[i].match_quality, matches[i].proficiency))])
        IN  /\ \A i \in 1..Len(matches) :
                /\ EQ(matches[i].match_score,
                      Mul(matches[i].match_quality, matches[i].proficiency))
                /\ EQ(matches[i].weighted_score,
                      Mul(matches[i].importance, matches[i].match_score))
            /\ EQ(totalImportance,
                  Add(SumOf([i \in 1..Len(matches) |-> matches[i].importance]),
                      SumOf([i \in 1..Len(result.missing_skills_details) |->
                                result.missing_skills_details[i].importance])))
            /\ totalImportance.n > 0 =>
                   /\ ~result.overall_match.nan
                   /\ result.overall_match.d = 1
                   \* overall_match is the integer nearest to 100 x ratio
                   /\ 2 * result.overall_match.n * totalImportance.n * matchedImportance.d
                          <= 200 * matchedImportance.n * totalImportance.d
                             + totalImportance.n * matchedImportance.d
                   /\ 2 * (result.overall_match.n + 1) * totalImportance.n * matchedImportance.d
                          > 200 * matchedImportance.n * totalImportance.d
                            + totalImportance.n * matchedImportance.d
            /\ (\A i \in 1..Len(profiles[1].skills) : profiles[1].skills[i].k = "str")
                   => \A i \in 1..Len(matches) : EQ(matches[i].proficiency, Rat(1, 1))
            /\ scenarioA =>
                   /\ EQ(matchedImportance, Rat(1, 1))
                   /\ EQ(totalImportance, Rat(18, 10))
                   /\ EQ(result.overall_match, Rat(56, 1))

C3_Witness ==
    /\ op = "calculateLocalMatch"
    /\ scenarioA
    /\ Len(result.skill_matches) = 1
    /\ result.skill_matches[1].skill_name = "React"
    /\ EQ(result.skill_matches[1].weighted_score, Rat(1, 1))
    /\ result.missing_skills = <<"Python">>
    /\ EQ(result.overall_match, Rat(56, 1))

\* C6: a job skill whose name equals a profile skill's name case-insensitively
\* is recorded as matched with match_quality 1.0, whatever else the profile
\* lists and in whatever order; 0.7 only when no profile skill name equals it
C6_EqualNameGivesFullQuality ==
    op = "calculateLocalMatch" =>
        \A k \in 1..Len(job.skills) :
            (\E i \in 1..Len(profiles[1].skills) :
                toLowerCase(profiles[1].skills[i].name) = toLowerCase(job.skills[k].name))
            => /\ \E m \in 1..Len(result.skill_matches) :
                      result.skill_matches[m].skill_name = job.skills[k].name
               /\ \A m \in 1..Len(result.skill_matches) :
                      result.skill_matches[m].skill_name = job.skills[k].name
                          => EQ(result.skill_matches[m].match_quality, Rat(1, 1))

missingRequiredCount ==
    Cardinality({k \in 1..Len(job.skills) :
        /\ job.skills[k].required
        /\ job.skills[k].name \in Range(result.missing_skills)})

\* C7: when a job skill marked required is unmatched the recommendation is
\* the score-band text followed by the note with the number of missing
\* required skills; otherwise it is the score-band text alone
C7_MissingRequiredSkillsAreNoted ==
    op = "calculateLocalMatch" =>
        IF missingRequiredCount > 0
        THEN result.recommendation =
                 bandText(result.overall_match)
                     \o " Missing " \o ToString(missingRequiredCount) \o " required skill(s)."
        ELSE result.recommendation = bandText(result.overall_match)

\* C8: with an empty job skill set the overall score is the fallback 0.5
\* (50 %), never NaN
C8_EmptyJobSkillsGiveFallbackScore ==
    (op = "calculateLocalMatch" /\ Len(job.skills) = 0) =>
        /\ ~result.overall_match.nan
        /\ EQ(result.overall_match, Rat(50, 1))

\* strengths lists, in match order, the skill_name of exactly the matches
\* with importance >= 0.7 and match_score >= 0.7
strengthsFollowMatches(strengths, matches) ==
    LET strong == {i \in 1..Len(matches) :
                      /\ GE(matches[i].importance, Rat(7, 10))
                      /\ GE(matches[i].match_score, Rat(7, 10))}
        nthStrong(k) ==
            CHOOSE i \in strong : Cardinality({h \in strong : h < i}) = k - 1
    IN  /\ Len(strengths) = Cardinality(strong)
        /\ \A k \in 1..Len(strengths) : strengths[k] = matches[nthStrong(k)].skill_name

\* C19: in the result of calculateLocalMatch strengths lists, in match
\* order, the skill_name of exactly the skill_matches entries with
\* importance >= 0.7 and match_score >= 0.7, and no strength is among the
\* missing skills; the card shows these strengths for such a result
C19_StrengthsAreImportantWellMatchedSkills ==
    /\ op = "calculateLocalMatch" =>
           /\ strengthsFollowMatches(result.strengths, result.skill_matches)
           /\ Range(result.strengths) \cap Range(result.missing_skills) = {}
    /\ (op = "matchResultCard" /\ "skill_matches" \in DOMAIN result.matchResult) =>
           /\ strengthsFollowMatches(result.processedResult.strengths,
                                     result.matchResult.skill_matches)
           /\ Range(result.processedResult.strengths)
                  \cap Range(result.processedResult.missing_skills) = {}

\* 'React' (importance 1.0) is matched partially by 'ReactJS' with match_score
\* exactly 0.7 and is a strength; 'node' (importance 0.5) is matched and is not
C19_Witness ==
    /\ op = "calculateLocalMatch"
    /\ Len(result.skill_matches) = 2
    /\ result.skill_matches[1].skill_name = "node"
    /\ result.skill_matches[2].skill_name = "React"
    /\ EQ(result.skill_matches[2].match_score, Rat(7, 10))
    /\ result.strengths = <<"React">>

startsWith(s, prefix) ==
    Len(s) >= Len(prefix) /\ SubSeq(s, 1, Len(prefix)) = prefix

tierNames == {"Excellent Match:", "Good Match:", "Moderate Match:", "Weak Match:", "Poor Match:"}

\* the tiers the score bands allow for a recommendation text and a score
\* given as a percentage
tierFollowsBands(recommendation, pct) ==
    LET tier(name) == startsWith(recommendation, name)
    IN  /\ tier("Excellent Match:") <=> GE(pct, Rat(85, 1))
        /\ tier("Good Match:") <=> (GE(pct, Rat(70, 1)) /\ LT(pct, Rat(85, 1)))
        /\ tier("Moderate Match:") <=> (GE(pct, Rat(50, 1)) /\ LT(pct, Rat(70, 1)))
        /\ tier("Weak Match:") <=> (GE(pct, Rat(30, 1)) /\ LT(pct, Rat(50, 1)))
        /\ tier("Poor Match:") <=> LT(pct, Rat(30, 1))

oneTier(recommendation) ==
    Cardinality({name \in tierNames : startsWith(recommendation, name)}) = 1

\* C20: the recommendation opens with exactly one tier; for a score that is
\* a number the tier is Excellent iff overall_score x 100 is >= 85, Good iff
\* it is in [70, 85), Moderate iff in [50, 70), Weak iff in [30, 50), Poor
\* iff < 30.  This holds for the recommendation calculateLocalMatch returns
\* (its overall_match is the percentage) and for the one the card shows.
C20_TierFollowsScoreBands ==
    /\ op = "calculateLocalMatch" =>
           /\ oneTier(result.recommendation)
           /\ ~result.overall_match.nan =>
                  tierFollowsBands(result.recommendation, result.overall_match)
    /\ op = "matchResultCard" =>
           LET shown == result.processedResult.recommendation
               pct == IF "overall_score" \in DOMAIN result.matchResult
                      THEN Mul(result.matchResult.overall_score, Rat(100, 1))
                      ELSE result.matchResult.overall_match
           IN  /\ oneTier(shown)
               /\ ~pct.nan => tierFollowsBands(shown, pct)

\* a score of exactly 70 is in the Good tier
C20_Witness ==
    /\ op = "calculateLocalMatch"
    /\ EQ(result.overall_match, Rat(70, 1))
    /\ startsWith(result.recommendation, "Good Match:")

(***************************************************************************)
(* Direct similarity calls                                                 *)
(***************************************************************************)
SimStrings ==
    {"", "r", "go", "git", "react", "React", "reactjs", "bash", "basash",
     "python", "problem solving", "problem", "solving problems fast",
     "javascript", "JavaScript", "java", "version control", "controller",
     "testing", "tester", "git github gitlab", "git hub",
     "sql mysql", "sql server"}


InitSim ==
    /\ str1 \in SimStrings
    /\ str2 \in SimStrings
    /\ profiles = <<>>
    /\ job = EmptyObj
    /\ job0 = EmptyObj
    /\ result = [none |-> TRUE]
    /\ op = "none"

\* calculateStringSimilarity(str1, str2)
SimilarityCall ==
    /\ op = "none"
    /\ op' = "similarity"
    /\ result' = [a |-> str1, b |-> str2,
                  value |-> calculateStringSimilarity(str1, str2)]
    /\ UNCHANGED <<profiles, job, job0, str1, str2>>

\* the call site of performLocalMatch: both names lower-cased first
SimilarityOfSkills ==
    /\ op = "none"
    /\ op' = "skillSimilarity"
    /\ result' = [a |-> toLowerCase(str1), b |-> toLowerCase(str2),
                  value |-> calculateStringSimilarity(toLowerCase(str1),
                                                      toLowerCase(str2))]
    /\ UNCHANGED <<profiles, job, job0, str1, str2>>

NextSim == SimilarityCall \/ SimilarityOfSkills

SpecSim == InitSim /\ [][NextSim]_vars

\* C10: for every skill name a, similarity(a, a) is 1.0
C10_SelfSimilarityIsOne ==
    (op \in {"similarity", "skillSimilarity"} /\ result.a = result.b)
        => (~result.value.nan /\ result.value.n = result.value.d)

C10_Witness ==
    /\ op = "skillSimilarity"
    /\ str1 = "React" /\ str2 = "react"
    /\ result.a = result.b
    /\ EQ(result.value, Rat(1, 1))

similarityReturned == op \in {"similarity", "skillSimilarity"}

\* C11: when one argument is a non-empty substring of the other the
\* similarity is at least 0.9, whichever argument comes first
C11_SubstringGivesAtLeastNineTenths ==
    ( /\ similarityReturned
      /\ \/ (result.a # "" /\ includes(result.b, result.a))
         \/ (result.b # "" /\ includes(result.a, result.b)) )
        => GE(result.value, Rat(9, 10))

\* the shorter name comes first and is a proper substring of the longer one
C11_Witness ==
    /\ op = "skillSimilarity"
    /\ result.a = "problem" /\ result.b = "problem solving"
    /\ EQ(result.value, Rat(9, 10))

\* C12: when either argument is the empty string the similarity is 0
C12_EmptyArgumentGivesZero ==
    (similarityReturned /\ (result.a = "" \/ result.b = ""))
        => EQ(result.value, Rat(0, 1))

\* C13: the similarity is a number with 0 <= similarity <= 1, and so are the
\* word-overlap ratio and the common prefix/suffix ratio of the two arguments
C13_SimilarityInUnitInterval ==
    similarityReturned =>
        LET inUnit(x) == ~x.nan /\ x.d > 0 /\ 0 <= x.n /\ x.n <= x.d
        IN  /\ inUnit(result.value)
            /\ inUnit(wordRule(result.a, result.b))
            /\ inUnit(prefixSuffixRule(result.a, result.b))

\* two of the three words of the first name are found in the second
C13_Witness ==
    /\ op = "similarity"
    /\ result.a = "solving problems fast" /\ result.b = "problem solving"
    /\ EQ(result.value, Rat(2, 3))

\* C25 as stated: for non-empty arguments the similarity is greater than 0
C25_NonEmptyGivesPositive ==
    (similarityReturned /\ result.a # "" /\ result.b # "")
        => LT(Rat(0, 1), result.value)

\* C25, amended: for non-empty arguments the similarity is 0 exactly when the
\* strings differ, neither contains the other, one of them is shorter than 3
\* characters and their first characters differ; otherwise it is greater
\* than 0
C25_ZeroOnlyForShortUnrelatedNames ==
    (similarityReturned /\ result.a # "" /\ result.b # "") =>
        LET shortAndUnrelated ==
                /\ result.a # result.b
                /\ ~includes(result.a, result.b)
                /\ ~includes(result.b, result.a)
                /\ (Len(result.a) < 3 \/ Len(result.b) < 3)
                /\ Char(result.a, 1) # Char(result.b, 1)
        IN  /\ shortAndUnrelated <=> EQ(result.value, Rat(0, 1))
            /\ ~shortAndUnrelated => LT(Rat(0, 1), result.value)

C25_Witness ==
    /\ op = "skillSimilarity"
    /\ result.a = "go" /\ result.b = "react"
    /\ EQ(result.value, Rat(0, 1))

\* C26: the similarity is the value of the first rule that applies: equal
\* strings 1.0; one contained in the other 0.9; either shorter than 3
\* characters 0.7 when the first characters are equal, else 0; some word of a
\* equal to, containing or contained in a word of b: the number of such
\* words of a over the larger word count; common prefix or common suffix of
\* length >= 3: (prefix + suffix) / (len a + len b); otherwise 0.1
C26_FirstApplicableRuleWins ==
    similarityReturned =>
        LET a == result.a
            b == result.b
            equal == a = b
            contained == includes(a, b) \/ includes(b, a)
            short == Len(a) < 3 \/ Len(b) < 3
            wordsA == splitWhitespace(a)
            wordsB == splitWhitespace(b)
            common == Cardinality({i \in 1..Len(wordsA) :
                          \E k \in 1..Len(wordsB) :
                              \/ wordsA[i] = wordsB[k]
                              \/ includes(wordsA[i], wordsB[k])
                              \/ includes(wordsB[k], wordsA[i])})
            prefix == commonPrefixLength(a, b)
            suffix == commonSuffixLength(a, b)
            is(x) == EQ(result.value, x)
        IN  IF equal THEN is(Rat(1, 1))
            ELSE IF contained THEN is(Rat(9, 10))
            ELSE IF short
                 THEN is(IF Char(a, 1) = Char(b, 1) THEN Rat(7, 10) ELSE Rat(0, 1))
            ELSE IF common > 0
                 THEN is(Rat(common, Max2(Len(wordsA), Len(wordsB))))
            ELSE IF prefix >= 3 \/ suffix >= 3
                 THEN is(Rat(prefix + suffix, Len(a) + Len(b)))
            ELSE is(Rat(1, 10))

\* no containment, no common word, a common prefix 'test' and no common
\* suffix: (4 + 0) / (7 + 6)
C26_Witness ==
    /\ op = "similarity"
    /\ result.a = "testing" /\ result.b = "tester"
    /\ commonPrefixLength("testing", "tester") = 4
    /\ commonSuffixLength("testing", "tester") = 0
    /\ EQ(result.value, Rat(4, 13))

\* the job record with the required flag set on exactly the skill objects at
\* the positions in flagged
withRequiredFlags(j, flagged) ==
    [j EXCEPT !.skills =
        [i \in 1..Len(j.skills) |->
            IF j.skills[i].k = "obj"
            THEN [j.skills[i] EXCEPT !.required = (i \in flagged)]
            ELSE j.skills[i]]]

sameNumber(x, y) == IF x.nan \/ y.nan THEN x.nan /\ y.nan ELSE EQ(x, y)

\* C27: the overall score calculateLocalMatch returns is the same for every
\* job that differs from the given one only in the required flags of its
\* skills
C27_ScoreIgnoresRequiredFlags ==
    op = "calculateLocalMatch" =>
        LET profile == profiles[1]
            j == job
            score == result.overall_match
        IN  \A flagged \in SUBSET (1..Len(j.skills)) :
                sameNumber(
                    calculateLocalMatch(profile, withRequiredFlags(j, flagged)).overall_match,
                    score)

\* React and Python both required, Python missing: 56, and 56 again with
\* neither of them required
C27_Witness ==
    /\ op = "calculateLocalMatch"
    /\ scenarioA
    /\ job.skills[1].required /\ job.skills[2].required
    /\ result.missing_skills = <<"Python">>
    /\ EQ(result.overall_match, Rat(56, 1))
    /\ withRequiredFlags(job, {}) # job
    /\ EQ(calculateLocalMatch(profiles[1], withRequiredFlags(job, {})).overall_match,
          Rat(56, 1))

\* C29: whether the similarity of two names reaches the matching threshold
\* 0.6 does not depend on the order of the arguments
C29_ThresholdDecisionIsSymmetric ==
    similarityReturned =>
        (GE(result.value, Rat(6, 10))
            <=> GE(calculateStringSimilarity(result.b, result.a), Rat(6, 10)))

\* C28: whenever performLocalMatch lists a job skill as missing, overall_score
\* is less than 1
C28_FullScoreOnlyWithNothingMissing ==
    (returnedByPerformLocalMatch /\ Len(result.skills_missing) > 0)
        => LT(result.overall_score, Rat(1, 1))

\* C30: the overall_score of calculateCombinedMatch for a non-empty list of
\* profiles is at least the overall_score performLocalMatch gives each
\* profile of the list against the same job
C30_CombinedScoreAtLeastEachProfileScore ==
    (op = "calculateCombinedMatch" /\ Len(profiles) > 0 /\ ~result.error) =>
        LET ps == profiles
            j == job
            combined == result.overall_score
        IN  \A i \in 1..Len(ps) :
                LET single == performLocalMatch(ps[i], j)
                IN  ~single.threw => GE(combined, single.overall_score)

====
